---- MODULE Spec2Model ----
(***************************************************************************)
(* Model of the QR attendance application (digital_attendance/app.py):     *)
(* the user directory (users.csv), the attendance ledger (attendance.csv), *)
(* the QRScanner video transformer (gate, overlay fields) and the          *)
(* mark_attendance / save_user helpers.                                    *)
(*                                                                         *)
(* Strings are sequences of one-character strings, so that strip, replace  *)
(* and int are computed as Python computes them.  Time is counted in ticks *)
(* of 1/TicksPerSecond seconds; a calendar day is DayLen ticks long.       *)
(***************************************************************************)
EXTENDS Integers, Sequences, FiniteSets, TLC

\* ---------------------------------------------------------------- bounds
\* The clock stops at MaxTime ticks.
MaxTime == 13

\* Length of a (scaled) calendar day, in ticks.
DayLen == 9

\* Clock resolution: ticks per second.
TicksPerSecond == 2

\* Each concurrent session makes at most MaxCalls calls of mark_attendance.
MaxCalls == 2

\* Registrations stop when the directory has this many rows.
MaxUsers == 3

\* ------------------------------------------------------ program constants
\* transform: time.time() - self.last_time > 1.5  (in tenths of a second)
DEBOUNCE_TENTHS == 15

\* QRScanner.__init__: self.message_timeout = 4  (seconds)
message_timeout == 4

\* QRScanner.__init__: self.message_shown_time = 0
SHOWN_TIME_INIT == 0

\* ---------------------------------------------------------------- strings
None == <<>>

Min(S) == CHOOSE x \in S : \A y \in S : x <= y
Max(S) == CHOOSE x \in S : \A y \in S : x >= y

\* str.strip(): drop leading and trailing blanks.
strip(s) ==
    LET idx == {k \in 1..Len(s) : s[k] # " "}
    IN  IF idx = {} THEN <<>> ELSE SubSeq(s, Min(idx), Max(idx))

\* str.replace(a, b) for one-character a and b.
replace(s, a, b) == [k \in 1..Len(s) |-> IF s[k] = a THEN b ELSE s[k]]

DigitVal(c) ==
    CASE c = "0" -> 0 [] c = "1" -> 1 [] c = "2" -> 2 [] c = "3" -> 3
      [] c = "4" -> 4 [] c = "5" -> 5 [] c = "6" -> 6 [] c = "7" -> 7
      [] c = "8" -> 8 [] c = "9" -> 9

\* str.isdigit(): a non-empty string of decimal digits.
isdigit(s) ==
    /\ s # <<>>
    /\ \A k \in 1..Len(s) :
          s[k] \in {"0", "1", "2", "3", "4", "5", "6", "7", "8", "9"}

\* int(roll) of a string of decimal digits.  A Python integer has no width;
\* the model keeps it as its decimal numeral, the digits without leading
\* zeros, which is also the text to_csv writes for it.
int(s) ==
    LET nz == {k \in 1..Len(s) : s[k] # "0"}
    IN  IF nz = {} THEN <<"0">> ELSE SubSeq(s, Min(nz), Len(s))

\* a > b, for numerals.
NumeralGreater(a, b) ==
    \/ Len(a) > Len(b)
    \/ /\ Len(a) = Len(b)
       /\ \E k \in 1..Len(a) :
             /\ DigitVal(a[k]) > DigitVal(b[k])
             /\ \A j \in 1..(k - 1) : a[j] = b[j]

\* 2^64 - 1, the largest integer pd.read_csv parses a cell to.
UINT64_MAX ==
    << "1", "8", "4", "4", "6", "7", "4", "4", "0", "7",
       "3", "7", "0", "9", "5", "5", "1", "6", "1", "5" >>

\* ------------------------------------------------------------------ inputs
\* Names and roll numbers typed into the registration form.
Names == {<<"A">>}
Rolls == {<<"1">>, <<"2">>}

\* QR payloads the camera can be shown: the codes of the registrable users
\* (one of them printed with a trailing blank), a code of nobody, a blank
\* code, and no code at all (the empty string detectAndDecode returns).
Ghost == <<"9", "_", "G">>
Payloads ==
    { <<"1", "_", "A">>, <<"2", "_", "A">>, <<"2", "_", "A", " ">>,
      Ghost, <<" ">>, <<>> }

\* -------------------------------------------------------------- wall clock
\* date.today().strftime("%Y-%m-%d"): the day the tick falls in.
Today(t) == t \div DayLen

\* datetime.now().strftime("%H:%M:%S"): whole seconds since midnight.
TimeOfDay(t) == (t % DayLen) \div TicksPerSecond

\* ---------------------------------------------------------- user directory
NoUser == [user_id |-> None, name |-> None, roll_number |-> <<"0">>]

\* f"{roll}_{name}".replace(" ", "_")
MakeUserId(name, roll) == replace(roll \o <<"_">> \o name, " ", "_")

\* pd.read_csv(USER_CSV), line 186: a column of integers is parsed to int64,
\* or to uint64; when a cell does not fit either, the whole column stays
\* text (dtype object, one str per cell).
RollColumnIsText(df) ==
    \E k \in 1..Len(df) : NumeralGreater(df[k].roll_number, UINT64_MAX)

\* int(roll) in df["roll_number"].values: an integer equals no str, so in a
\* text column it is never found.
RollExists(df, roll) ==
    /\ ~RollColumnIsText(df)
    /\ \E k \in 1..Len(df) : df[k].roll_number = int(roll)

\* df[df["roll_number"] == int(roll)].iloc[0]
RowOfRoll(df, roll) ==
    df[Min({k \in 1..Len(df) : df[k].roll_number = int(roll)})]

\* save_user(name, roll, ...): the directory it writes, the user_id it
\* returns and the "already exists" flag.
save_user(name, roll, df) ==
    LET user_id == MakeUserId(name, roll)
    IN  IF RollExists(df, roll)
        THEN [df |-> df, user_id |-> RowOfRoll(df, roll).user_id, exists |-> TRUE]
        ELSE [df |-> Append(df, [user_id |-> user_id, name |-> name,
                                 roll_number |-> int(roll)]),
              user_id |-> user_id, exists |-> FALSE]

\* ------------------------------------------------------- attendance ledger
\* Mutant of LookupUser: the directory is not filtered by user_id.
LookupUser_NoFilter(df_users, user_id) == df_users

\* df_users[df_users["user_id"] == user_id]
LookupUser(df_users, user_id) ==
    SelectSeq(df_users, LAMBDA r : r.user_id = user_id)

\* Mutant of Already: today is compared with the timestamp column.
Already_WrongColumn(df_att, user_id, today) ==
    \E k \in 1..Len(df_att) :
        df_att[k].user_id = user_id /\ df_att[k].timestamp = today

\* Mutant of Already: the date is not compared at all.
Already_AnyDay(df_att, user_id, today) ==
    \E k \in 1..Len(df_att) : df_att[k].user_id = user_id

\* ((df_att["user_id"] == user_id) & (df_att["date"] == today)).any()
Already(df_att, user_id, today) ==
    \E k \in 1..Len(df_att) :
        df_att[k].user_id = user_id /\ df_att[k].date = today

\* new_entry of mark_attendance
NewEntry(user_info, user_id, today, tod) ==
    [user_id |-> user_id, name |-> user_info.name,
     roll_number |-> user_info.roll_number, date |-> today, timestamp |-> tod]

\* mark_attendance(user_id) run at tick t without interruption, on the
\* directory df_users and the ledger df_att: the user_info and status it
\* returns and the ledger it leaves on disk.
mark_attendance(user_id, df_users, df_att, t) ==
    LET user == LookupUser(df_users, user_id)
    IN  IF user = <<>>
        THEN [user_info |-> NoUser, status |-> "not_found", att |-> df_att]
        ELSE IF Already(df_att, user_id, Today(t))
        THEN [user_info |-> user[1], status |-> "duplicate", att |-> df_att]
        ELSE [user_info |-> user[1], status |-> "success",
              att |-> Append(df_att,
                             NewEntry(user[1], user_id, Today(t), TimeOfDay(t)))]


\* ------------------------------------------------------------------- state
VARIABLES
    now,                \* the wall clock (time.time(), date.today()), in ticks
    in_view,            \* the QR payload in front of the camera ("" for none)
    users,              \* rows of users.csv
    att,                \* rows of attendance.csv
    last_id,            \* QRScanner.last_id
    last_time,          \* QRScanner.last_time
    overlay_message,    \* QRScanner.overlay_message
    message_shown_time, \* QRScanner.message_shown_time
    current_user,       \* QRScanner.current_user
    user_info,          \* st.session_state["user_info"]
    last_popup,         \* st.session_state["last_popup"]
    confirm_delete_all, \* st.session_state["confirm_delete_all"]
    event,              \* history: what the last step did with its frame
    fwd_log,            \* history: the last two payloads passed on to
                        \* mark_attendance, with the tick of each
    ctx,                \* the mark_attendance calls of concurrent sessions
    view                \* the View Data page: the script run that deletes a user

scanner == <<last_id, last_time, overlay_message, message_shown_time, current_user>>
session == <<user_info, last_popup, confirm_delete_all>>
vars == <<now, in_view, users, att, scanner, session, event, fwd_log, ctx, view>>

\* No frame was processed in the last step.  Of a frame, event keeps what the
\* frame held (kind, id) and how the call of transform ended (out); of a
\* click in the "Delete All Attendance Records" section, the button (kind).
NoEvent == [kind |-> "none", id |-> None, out |-> "none"]

\* The last two entries of a log.
LastTwo(log) == IF Len(log) <= 2 THEN log ELSE SubSeq(log, Len(log) - 1, Len(log))

\* ------------------------------------------------------ concurrent sessions
Contexts == {1, 2}

IdleCtx ==
    [pc |-> "idle", user_id |-> None, df_users |-> <<>>, df_att |-> <<>>,
     new_entry |-> <<>>, status |-> "", today |-> 0, calls |-> 0,
     call_day |-> 0, pre_absent |-> FALSE, overlapped |-> FALSE]

\* The View Data page is not running; its dataframes are gone.
IdleView == [pc |-> "idle", user_to_delete |-> None, df_users |-> <<>>, df_att |-> <<>>]

\* ------------------------------------------------------------- QRScanner
\* Mutant of GateOpen: every non-blank payload is passed on.
GateOpen_NoGate(user_id, lid, ltime, t) == user_id # <<>>

\* transform, line 323: the condition under which a decoded payload is
\* passed on to mark_attendance.
GateOpen(user_id, lid, ltime, t) ==
    /\ user_id # <<>>
    /\ user_id # lid
    /\ (t - ltime) * 10 > DEBOUNCE_TENTHS * TicksPerSecond

\* Mutant of GateMemoryAfter: the scanner remembers only scans that marked
\* attendance.
GateMemoryAfter_OnSuccess(forward, status, user_id, t, lid, ltime) ==
    IF forward /\ status = "success" THEN <<user_id, t>> ELSE <<lid, ltime>>

\* Mutant of GateMemoryAfter: every decoded payload restarts the window.
GateMemoryAfter_EveryDecode(forward, status, user_id, t, lid, ltime) ==
    IF forward THEN <<user_id, t>>
    ELSE IF user_id # <<>> THEN <<lid, t>>
    ELSE <<lid, ltime>>

\* transform, lines 339-340: last_id and last_time after the frame.  They are
\* assigned inside the branch of line 323, after the if/elif/else on status,
\* so for every status.
GateMemoryAfter(forward, status, user_id, t, lid, ltime) ==
    IF forward THEN <<user_id, t>> ELSE <<lid, ltime>>

\* Mutant of OverlayFor: the badges of success and duplicate are swapped.
OverlayFor_Swapped(status) ==
    CASE status = "success"   -> "Already Marked"
      [] status = "duplicate" -> "Attendance Marked"
      [] status = "not_found" -> "User Not Found"

\* transform, lines 329-337
OverlayFor(status) ==
    CASE status = "success"   -> "Attendance Marked"
      [] status = "duplicate" -> "Already Marked"
      [] status = "not_found" -> "User Not Found"

\* Mutant of OverlayExpired: the badge goes at the timeout already.
OverlayExpired_AtTimeout(msg, shown, t) ==
    msg # "" /\ (t - shown) >= message_timeout * TicksPerSecond

\* Mutant of OverlayExpired: the difference is taken the wrong way round.
OverlayExpired_Reversed(msg, shown, t) ==
    msg # "" /\ (shown - t) > message_timeout * TicksPerSecond

\* transform, line 343
OverlayExpired(msg, shown, t) ==
    msg # "" /\ (t - shown) > message_timeout * TicksPerSecond

\* transform, line 377: the user whose panel is drawn on the frame.
PanelUser(cur, info) == IF cur # NoUser THEN cur ELSE info

\* QRScanner.__init__: a scanning session starts.
NewSession ==
    /\ last_id' = None
    /\ last_time' = now
    /\ overlay_message' = ""
    /\ message_shown_time' = SHOWN_TIME_INIT
    /\ current_user' = NoUser
    /\ event' = NoEvent
    /\ UNCHANGED <<now, in_view, users, att, session, fwd_log, ctx, view>>

\* QRScanner.transform: one video frame, decoded to the payload in view.  The
\* frame is processed within one tick, so every time.time() of it reads now.
transform ==
    LET data     == in_view
        user_id  == strip(data)
        forward  == data # <<>> /\ GateOpen(user_id, last_id, last_time, now)
        r        == mark_attendance(user_id, users, att, now)
        msg      == IF forward THEN OverlayFor(r.status) ELSE overlay_message
        shown    == IF forward THEN now ELSE message_shown_time
        cur      == IF forward THEN r.user_info ELSE current_user
        expired  == OverlayExpired(msg, shown, now)
        gate     == GateMemoryAfter(forward, r.status, user_id, now,
                                    last_id, last_time)
    IN  /\ att' = IF forward THEN r.att ELSE att
        /\ user_info' = IF forward THEN r.user_info ELSE user_info
        /\ last_popup' = IF forward THEN r.status ELSE last_popup
        /\ last_id' = gate[1]
        /\ last_time' = gate[2]
        /\ message_shown_time' = shown
        /\ overlay_message' = IF expired THEN "" ELSE msg
        /\ current_user' = IF expired THEN NoUser ELSE cur
        /\ event' = [kind |-> IF forward THEN "forwarded"
                               ELSE IF user_id # <<>> THEN "suppressed"
                               ELSE "miss",
                      id |-> user_id, out |-> "returned"]
        /\ fwd_log' = IF forward
                      THEN LastTwo(Append(fwd_log, [id |-> user_id, t |-> now]))
                      ELSE fwd_log
        /\ UNCHANGED <<now, in_view, users, confirm_delete_all, ctx, view>>

\* QRScanner.transform on a frame for which to_csv of line 238 raises (the
\* file cannot be opened for writing): the payload passed line 323 and
\* mark_attendance got as far as the write.  Nothing catches the exception in
\* mark_attendance or in transform, so the call ends at line 324: lines
\* 325-346 do not run and no frame is returned.
transform_write_raises ==
    LET user_id == strip(in_view)
        forward == in_view # <<>> /\ GateOpen(user_id, last_id, last_time, now)
        r       == mark_attendance(user_id, users, att, now)
    IN  /\ forward
        /\ r.status = "success"
        /\ event' = [kind |-> "write_failed", id |-> user_id, out |-> "raised"]
        /\ UNCHANGED <<now, in_view, users, att, scanner, session, fwd_log, ctx, view>>

\* QRScanner.transform on a frame for which detectAndDecode of line 314
\* raises: the call is not inside a try, so transform ends there, line 343
\* included, and no frame is returned.
transform_decode_raises ==
    /\ event' = [kind |-> "decode_failed", id |-> None, out |-> "raised"]
    /\ UNCHANGED <<now, in_view, users, att, scanner, session, fwd_log, ctx, view>>

\* ------------------------------------------------------------ environment
\* The clock advances by one tick.
Tick ==
    /\ now < MaxTime
    /\ now' = now + 1
    /\ event' = NoEvent
    /\ UNCHANGED <<in_view, users, att, scanner, session, fwd_log, ctx, view>>

\* Somebody holds another code (or none) in front of the camera.
Show(p) ==
    /\ p # in_view
    /\ in_view' = p
    /\ event' = NoEvent
    /\ UNCHANGED <<now, users, att, scanner, session, fwd_log, ctx, view>>

\* Register User page, submit: fields that are blank, or a roll number that
\* is not all digits, show an error; otherwise save_user is called with the
\* stripped fields.
Register(name, roll) ==
    /\ Len(users) < MaxUsers
    /\ users' = IF strip(name) # <<>> /\ strip(roll) # <<>> /\ isdigit(roll)
                THEN save_user(strip(name), strip(roll), users).df
                ELSE users
    /\ event' = NoEvent
    /\ UNCHANGED <<now, in_view, att, scanner, session, fwd_log, ctx, view>>

\* ------------------------------------------------------------ specification
\* init_csv leaves both files with a header and no rows; the scanner is as
\* constructed at tick 0.
Init ==
    /\ now = 0
    /\ in_view = <<>>
    /\ users = <<>>
    /\ att = <<>>
    /\ last_id = None
    /\ last_time = 0
    /\ overlay_message = ""
    /\ message_shown_time = SHOWN_TIME_INIT
    /\ current_user = NoUser
    /\ user_info = NoUser
    /\ last_popup = ""
    /\ confirm_delete_all = FALSE
    /\ event = NoEvent
    /\ fwd_log = <<>>
    /\ ctx = [c \in Contexts |-> IdleCtx]
    /\ view = IdleView

Next ==
    \/ Tick
    \/ \E p \in Payloads : Show(p)
    \/ transform
    \/ transform_write_raises
    \/ transform_decode_raises
    \/ NewSession
    \/ \E name \in Names, roll \in Rolls : Register(name, roll)

Spec == Init /\ [][Next]_vars


\* ---------------------------------------------- concurrent mark_attendance
\* Two scanning sessions (browser sessions of the same server) run transform
\* on their own threads; each passes payloads to mark_attendance, whose file
\* reads and file write are separate steps that interleave with the other
\* session's.

InFlight(c) == ctx[c].pc # "idle"

\* The codes the two sessions decode.
CallIds == {<<"1", "_", "A">>, <<"2", "_", "A">>, Ghost}

\* The directory after both users registered.
RegisteredAll ==
    save_user(<<"A">>, <<"2">>, save_user(<<"A">>, <<"1">>, <<>>).df).df

\* transform line 324 calls mark_attendance; line 214: df_users is read.
Call(c, user_id) ==
    /\ ~InFlight(c)
    /\ ctx[c].calls < MaxCalls
    /\ ctx' = [d \in Contexts |->
                IF d = c
                THEN [IdleCtx EXCEPT
                        !.pc = "read_att", !.user_id = user_id,
                        !.df_users = users,
                        !.calls = ctx[c].calls + 1,
                        !.call_day = Today(now),
                        !.pre_absent = ~Already(att, user_id, Today(now)),
                        !.overlapped = \E e \in Contexts \ {c} : InFlight(e)]
                ELSE IF InFlight(d) THEN [ctx[d] EXCEPT !.overlapped = TRUE]
                ELSE ctx[d]]
    /\ event' = NoEvent
    /\ UNCHANGED <<now, in_view, users, att, scanner, session, fwd_log, view>>

\* line 215: df_att is read.
ReadAtt(c) ==
    /\ ctx[c].pc = "read_att"
    /\ ctx' = [ctx EXCEPT ![c].df_att = att, ![c].pc = "check"]
    /\ event' = NoEvent
    /\ UNCHANGED <<now, in_view, users, att, scanner, session, fwd_log, view>>

\* The call returns: its locals are gone, its result stays.
Return(me, status) ==
    [me EXCEPT !.pc = "idle", !.status = status,
               !.df_users = <<>>, !.df_att = <<>>, !.new_entry = <<>>]

\* lines 216-236: lookup, today, already, new_entry; returns not_found or
\* duplicate, or goes on to write.
Check(c) ==
    LET me   == ctx[c]
        user == LookupUser(me.df_users, me.user_id)
    IN  /\ me.pc = "check"
        /\ ctx' = [ctx EXCEPT ![c] =
                     IF user = <<>>
                     THEN Return(me, "not_found")
                     ELSE IF Already(me.df_att, me.user_id, Today(now))
                     THEN Return([me EXCEPT !.today = Today(now)], "duplicate")
                     ELSE [me EXCEPT !.pc = "write", !.today = Today(now),
                                     !.new_entry =
                                        <<NewEntry(user[1], me.user_id,
                                                   Today(now), TimeOfDay(now))>>]]
        /\ event' = NoEvent
        /\ UNCHANGED <<now, in_view, users, att, scanner, session, fwd_log, view>>

\* lines 237-239: the whole table read at line 215, plus the new row, is
\* written over attendance.csv; returns success.
Write(c) ==
    /\ ctx[c].pc = "write"
    /\ att' = ctx[c].df_att \o ctx[c].new_entry
    /\ ctx' = [ctx EXCEPT ![c] = Return(ctx[c], "success")]
    /\ event' = NoEvent
    /\ UNCHANGED <<now, in_view, users, scanner, session, fwd_log, view>>

\* Both users are registered already, nothing is recorded yet and a scanning
\* session starts.
InitRegistered ==
    /\ now = 0
    /\ in_view = <<>>
    /\ users = RegisteredAll
    /\ att = <<>>
    /\ last_id = None
    /\ last_time = 0
    /\ overlay_message = ""
    /\ message_shown_time = SHOWN_TIME_INIT
    /\ current_user = NoUser
    /\ user_info = NoUser
    /\ last_popup = ""
    /\ confirm_delete_all = FALSE
    /\ event = NoEvent
    /\ fwd_log = <<>>
    /\ ctx = [c \in Contexts |-> IdleCtx]
    /\ view = IdleView

NextConc ==
    \/ Tick
    \/ \E c \in Contexts, user_id \in CallIds : Call(c, user_id)
    \/ \E c \in Contexts : ReadAtt(c)
    \/ \E c \in Contexts : Check(c)
    \/ \E c \in Contexts : Write(c)

SpecConc == InitRegistered /\ [][NextConc]_vars


\* ------------------------------------------------------- one long session
\* One scanning session over registered users: codes come and go in front of
\* the camera, the frame context keeps processing frames and the clock keeps
\* running.
NextScan ==
    \/ Tick
    \/ \E p \in Payloads : Show(p)
    \/ transform

FairSpec ==
    InitRegistered /\ [][NextScan]_vars /\ WF_vars(Tick) /\ WF_vars(transform)

\* ------------------------------------------------------------ View Data page
\* Deleting a user while a session scans.  A click on "Delete Selected User"
\* reruns the page script on its own thread: it reads both files (lines
\* 480-481), and then rewrites each from the dataframe it read (lines
\* 491-494); the file reads and writes of a mark_attendance call in progress
\* interleave with these.

\* A dataframe without the rows of user u (lines 491 and 493).
WithoutUser(df, u) == SelectSeq(df, LAMBDA row : row.user_id # u)

\* The user_id column of a dataframe (the options of the selectbox, line 489).
UserIds(df) == {df[k].user_id : k \in 1..Len(df)}

\* line 480
ViewReadUsers ==
    /\ view.pc = "idle"
    /\ view' = [IdleView EXCEPT !.pc = "read_att", !.df_users = users]
    /\ event' = NoEvent
    /\ UNCHANGED <<now, in_view, users, att, scanner, session, fwd_log, ctx>>

\* line 481
ViewReadAtt ==
    /\ view.pc = "read_att"
    /\ view' = [view EXCEPT !.pc = "rendered", !.df_att = att]
    /\ event' = NoEvent
    /\ UNCHANGED <<now, in_view, users, att, scanner, session, fwd_log, ctx>>

\* lines 489-492: the button was clicked with user u selected; users.csv is
\* written without u.
DeleteUsers(u) ==
    /\ view.pc = "rendered"
    /\ u \in UserIds(view.df_users)
    /\ users' = WithoutUser(view.df_users, u)
    /\ view' = [view EXCEPT !.pc = "delete_att", !.user_to_delete = u]
    /\ event' = NoEvent
    /\ UNCHANGED <<now, in_view, att, scanner, session, fwd_log, ctx>>

\* lines 493-494: attendance.csv is written without the rows of u; the run
\* ends (lines 495-501 remove the image files and rerun the page).
DeleteAtt ==
    /\ view.pc = "delete_att"
    /\ att' = WithoutUser(view.df_att, view.user_to_delete)
    /\ view' = IdleView
    /\ event' = NoEvent
    /\ UNCHANGED <<now, in_view, users, scanner, session, fwd_log, ctx>>

\* The page was drawn and the button was not clicked: the run ends.
ViewDone ==
    /\ view.pc = "rendered"
    /\ view' = IdleView
    /\ event' = NoEvent
    /\ UNCHANGED <<now, in_view, users, att, scanner, session, fwd_log, ctx>>

\* One scanning session (context 1) and the View Data page.
NextDel ==
    \/ \E user_id \in CallIds : Call(1, user_id)
    \/ ReadAtt(1)
    \/ Check(1)
    \/ Write(1)
    \/ ViewReadUsers
    \/ ViewReadAtt
    \/ \E u \in CallIds : DeleteUsers(u)
    \/ DeleteAtt
    \/ ViewDone

SpecDel == InitRegistered /\ [][NextDel]_vars

\* ------------------------------------------------------ Register User page
\* Registrations only, with the inputs that tell the roll number from its
\* spelling: leading zeros, blanks around the fields, blanks inside the name,
\* a roll number that is not a number, a roll number of many digits.
RegNames == {<<"A">>, <<"A", " ", "B">>, <<"A", "_", "B">>, <<" ", "A">>, <<" ">>}

\* 10^20, a roll number of 21 digits.
BigRoll == [k \in 1..21 |-> IF k = 1 THEN "1" ELSE "0"]

RegRolls == {<<"1">>, <<"0", "1">>, <<"2">>, BigRoll, <<"1", " ">>, <<"x">>, <<>>}

NextReg == \E name \in RegNames, roll \in RegRolls : Register(name, roll)

SpecReg == Init /\ [][NextReg]_vars

\* ------------------------------------- View Data page: clear all attendance
\* Each click reruns the page script; st.button is True only in the run its
\* click started.  init_csv (line 178) runs at the top of every run, so
\* attendance.csv exists at line 522.

\* Mutant of ConfirmShown: the confirm and cancel buttons are always drawn.
ConfirmShown_Always(flag) == TRUE

\* line 516: the confirm and cancel buttons are drawn, and can be clicked,
\* when the flag is set.
ConfirmShown(flag) == flag

\* lines 513-514: "Clear All Attendance Data" was clicked.
ClearAll ==
    /\ confirm_delete_all' = TRUE
    /\ event' = [kind |-> "clear", id |-> None, out |-> "none"]
    /\ UNCHANGED <<now, in_view, users, att, scanner, user_info, last_popup,
                   fwd_log, ctx, view>>

\* lines 520-532: "Confirm: Delete ALL Attendance" was clicked.  With ok the
\* backup is copied, the ledger is written empty and the flag is reset
\* (lines 525-528); without, shutil.copy or to_csv raises before the ledger
\* is touched and the except of line 531 reports it, the flag left as it is.
ConfirmDeleteAll(ok) ==
    /\ ConfirmShown(confirm_delete_all)
    /\ att' = IF ok THEN <<>> ELSE att
    /\ confirm_delete_all' = IF ok THEN FALSE ELSE confirm_delete_all
    /\ event' = [kind |-> "confirm", id |-> None, out |-> "none"]
    /\ UNCHANGED <<now, in_view, users, scanner, user_info, last_popup,
                   fwd_log, ctx, view>>

\* lines 533-536: "Cancel" was clicked.
CancelDeleteAll ==
    /\ ConfirmShown(confirm_delete_all)
    /\ confirm_delete_all' = FALSE
    /\ event' = [kind |-> "cancel", id |-> None, out |-> "none"]
    /\ UNCHANGED <<now, in_view, users, att, scanner, user_info, last_popup,
                   fwd_log, ctx, view>>

\* A scanning session fills the ledger while the View Data page is used.
NextClear ==
    \/ Tick
    \/ \E p \in Payloads : Show(p)
    \/ transform
    \/ ClearAll
    \/ \E ok \in BOOLEAN : ConfirmDeleteAll(ok)
    \/ CancelDeleteAll

SpecClear == InitRegistered /\ [][NextClear]_vars

\* ================================================================ properties
\* The rows of ledger a for identity i on day d.
RecordsOf(a, i, d) == {k \in 1..Len(a) : a[k].user_id = i /\ a[k].date = d}

\* Identity i has a row in directory dir.
IsRegistered(dir, i) == \E k \in 1..Len(dir) : dir[k].user_id = i

\* Every row of ledger a is, with all its fields, a row of ledger b.
RowsKept(a, b) == \A k \in 1..Len(a) : \E j \in 1..Len(b) : b[j] = a[k]

\* dt ticks are less than the debounce window of 1.5 s.
WithinWindow(dt) == dt * 10 < DEBOUNCE_TENTHS * TicksPerSecond

\* The step processes a frame in which a non-blank payload was decoded.
ScanStep == event'.kind \in {"forwarded", "suppressed"}

\* The step processes a frame whose payload was passed on to mark_attendance.
ForwardStep == event'.kind = "forwarded"

\* C1: in every state reached by processing frames, the ledger holds at most
\* one record for each (identity, date) pair.
C1_OneRecordPerIdentityAndDay ==
    \A j, k \in 1..Len(att) :
        (att[j].user_id = att[k].user_id /\ att[j].date = att[k].date) => j = k

\* C1 witness: one identity was recorded on two days, after frames of the
\* same identity on the same day had been processed as well.
C1_Witness ==
    /\ \E j, k \in 1..Len(att) :
          att[j].user_id = att[k].user_id /\ att[j].date # att[k].date
    /\ event.kind = "suppressed"
    /\ RecordsOf(att, event.id, Today(now)) # {}

\* C2 (as claimed): two overlapping mark_attendance calls of different
\* sessions for the same registered identity and the same day, begun with no
\* record for that pair, return one success and one duplicate and leave
\* exactly one record.
C2_RaceGivesOneSuccessOneDuplicate ==
    \A c, d \in Contexts :
        ( /\ c # d
          /\ ~InFlight(c) /\ ~InFlight(d)
          /\ ctx[c].overlapped /\ ctx[d].overlapped
          /\ ctx[c].user_id = ctx[d].user_id
          /\ IsRegistered(users, ctx[c].user_id)
          /\ ctx[c].pre_absent /\ ctx[d].pre_absent
          /\ ctx[c].call_day = ctx[d].call_day
          /\ ctx[c].today = ctx[c].call_day /\ ctx[d].today = ctx[d].call_day )
        => /\ {ctx[c].status, ctx[d].status} = {"success", "duplicate"}
           /\ Cardinality(RecordsOf(att, ctx[c].user_id, ctx[c].call_day)) = 1

\* C3 (as claimed): no step of a mark_attendance call, in whatever session
\* and however interleaved, removes or changes a record of the ledger.
C3_NoRecordLost ==
    [][(ctx' # ctx) => RowsKept(att, att')]_vars

\* C4: a frame passed on for a registered identity that has no record today
\* returns success and appends one record carrying the time of that frame; a
\* frame passed on for a registered identity that has a record today returns
\* duplicate and leaves the ledger, and so the first record's time, as is.
C4_Idempotent ==
    [][(ForwardStep /\ IsRegistered(users, event'.id)) =>
          LET i    == event'.id
              had  == RecordsOf(att, i, Today(now))
              have == RecordsOf(att', i, Today(now))
          IN  IF had = {}
              THEN /\ last_popup' = "success"
                   /\ Len(att') = Len(att) + 1
                   /\ SubSeq(att', 1, Len(att)) = att
                   /\ have = {Len(att')}
                   /\ att'[Len(att')].timestamp = TimeOfDay(now)
              ELSE /\ last_popup' = "duplicate"
                   /\ att' = att
                   /\ Cardinality(have) = 1]_vars

\* C4 witness: a second frame of an identity was passed on later the same
\* day and answered duplicate; the one record still carries the first time.
C4_Witness ==
    /\ event.kind = "forwarded"
    /\ last_popup = "duplicate"
    /\ \E k \in 1..Len(att) :
          /\ att[k].user_id = event.id
          /\ att[k].date = Today(now)
          /\ att[k].timestamp # TimeOfDay(now)
    /\ Cardinality(RecordsOf(att, event.id, Today(now))) = 1

\* C5 (as claimed): a decoded payload of the identity GateMemory holds is
\* passed on exactly when at least the debounce window has passed since that
\* identity was last passed on.
C5_DebounceReopens ==
    [][(ScanStep /\ event'.id = last_id) =>
          (ForwardStep <=> ~WithinWindow(now - last_time))]_vars

\* C6 (as claimed): a decoded payload whose identity differs from the one
\* GateMemory holds is always passed on.
C6_SwitchThrough ==
    [][(ScanStep /\ last_id # None /\ event'.id # last_id) => ForwardStep]_vars

\* C7: two payloads passed on one after the other are never the same
\* identity less than the debounce window apart.
C7_NoRepeatInWindow ==
    Len(fwd_log) = 2 =>
        ~(fwd_log[1].id = fwd_log[2].id /\ WithinWindow(fwd_log[2].t - fwd_log[1].t))

\* C7 witness: the same identity was passed on twice in a row.
C7_Witness ==
    /\ Len(fwd_log) = 2
    /\ fwd_log[1].id = fwd_log[2].id
    /\ event.kind = "forwarded"

\* The clock of the model stopped before the time the gate waits for passed.
ClockRanOut ==
    now = MaxTime /\ ~((now - last_time) * 10 > DEBOUNCE_TENTHS * TicksPerSecond)

\* C8 (as claimed): a registered identity that stays in view, frame after
\* frame, ends up with a record for the current day, whatever day it has
\* become and whatever was scanned before.
C8_NoMissedScan ==
    \A i \in CallIds :
        <>[](in_view = i /\ IsRegistered(users, i) /\ ~ClockRanOut)
            => []<>(RecordsOf(att, i, Today(now)) # {})

\* C9: a payload passed on for an identity that is not in the directory
\* returns not_found and leaves the ledger as is; and every record appended
\* carries an identity that is in the directory at that moment.
C9_UnknownIdentity ==
    [][ /\ (ForwardStep /\ ~IsRegistered(users, event'.id)) =>
              (last_popup' = "not_found" /\ att' = att)
        /\ (att' # att) =>
              /\ Len(att') = Len(att) + 1
              /\ IsRegistered(users, att'[Len(att')].user_id) ]_vars

\* C9 witness: with users registered and a record in the ledger, the code of
\* nobody was passed on and answered not_found.
C9_Witness ==
    /\ event.kind = "forwarded"
    /\ ~IsRegistered(users, event.id)
    /\ last_popup = "not_found"
    /\ users # <<>>
    /\ att # <<>>

\* C10: a frame passed on for a registered identity that has a record for
\* another day but none for today returns success, and afterwards the ledger
\* holds both records.
C10_CrossDay ==
    [][(/\ ForwardStep
        /\ IsRegistered(users, event'.id)
        /\ RecordsOf(att, event'.id, Today(now)) = {}
        /\ \E k \in 1..Len(att) : att[k].user_id = event'.id) =>
          /\ last_popup' = "success"
          /\ RowsKept(att, att')
          /\ Cardinality({k \in 1..Len(att') : att'[k].user_id = event'.id})
                = Cardinality({k \in 1..Len(att) : att[k].user_id = event'.id}) + 1
          /\ RecordsOf(att', event'.id, Today(now)) # {}]_vars

\* C10 witness: an identity recorded on an earlier day was passed on again
\* and answered success; the ledger holds its records of both days.
C10_Witness ==
    /\ event.kind = "forwarded"
    /\ last_popup = "success"
    /\ RecordsOf(att, event.id, Today(now)) # {}
    /\ \E k \in 1..Len(att) :
          att[k].user_id = event.id /\ att[k].date < Today(now)

\* ----------------------------------------------------------- feedback state
\* The badge is on the frame (FeedbackState is Resolved).
Resolved == overlay_message # ""

\* The tick at which the badge now shown reaches its time to live.
expiry_time == message_shown_time + message_timeout * TicksPerSecond

\* The step is a frame that transform processed to its end.
FrameStep == event'.out = "returned"

StatusBadges == {"Attendance Marked", "Already Marked", "User Not Found"}

\* C12: when the write of a passed-on scan to attendance.csv fails, the frame
\* still completes, the badge shows an outcome of its own (none of success,
\* duplicate, not found) from that tick on, the ledger is unchanged, and
\* last_id and last_time are not updated, so the same code is passed on again
\* on its next decode.
C12_WriteFailedShown ==
    [][event'.kind = "write_failed" =>
          /\ event'.out = "returned"
          /\ overlay_message' # "" /\ overlay_message' \notin StatusBadges
          /\ message_shown_time' = now
          /\ att' = att
          /\ last_id' = last_id /\ last_time' = last_time]_vars

\* C13: a frame on which the decoder fails is handled exactly like a frame
\* with no QR code: the frame is returned, the ledger, last_id and last_time
\* are unchanged, and the badge is as after a frame without a code (removed
\* if its time is up, otherwise as it was).
C13_DecodeFailureAsNoCode ==
    [][event'.kind = "decode_failed" =>
          /\ event'.out = "returned"
          /\ att' = att
          /\ last_id' = last_id /\ last_time' = last_time
          /\ overlay_message' = IF Resolved /\ now > expiry_time
                                THEN "" ELSE overlay_message]_vars

\* C14: every payload passed on, with identity i at tick t, sets last_id to i
\* and last_time to t whatever mark_attendance returned (success, duplicate
\* or not found); an unregistered code held in view is therefore looked up
\* once and is held back on the frames that follow.
C14_GateMemorySetOnForward ==
    /\ event.kind = "forwarded" =>
          /\ last_popup \in {"success", "duplicate", "not_found"}
          /\ last_id = event.id
          /\ last_time = now
    /\ (event.kind = "suppressed" /\ event.id = Ghost /\ last_id = Ghost) =>
          /\ Len(fwd_log) > 0
          /\ fwd_log[Len(fwd_log)].id = Ghost
          /\ fwd_log[Len(fwd_log)].t = last_time

\* The unregistered code was looked up, stayed in view, and its next frame
\* was held back.
C14_Witness ==
    /\ event.kind = "suppressed"
    /\ event.id = Ghost
    /\ last_id = Ghost
    /\ last_popup = "not_found"
    /\ now > last_time

\* The badge that goes with a status.
BadgeOf(status) ==
    IF status = "success" THEN "Attendance Marked"
    ELSE IF status = "duplicate" THEN "Already Marked"
    ELSE "User Not Found"

\* C15: whenever a payload is passed on, at the end of that frame the badge
\* is that of the status this frame's mark_attendance returned, the user
\* panel shows the user of the payload exactly when the identity resolved
\* (no panel for not found), and the badge's time runs from now; this is so
\* whether or not a badge was showing before.
C15_ForwardResolves ==
    event.kind = "forwarded" =>
        /\ Resolved
        /\ overlay_message = BadgeOf(last_popup)
        /\ message_shown_time = now
        /\ expiry_time = now + message_timeout * TicksPerSecond
        /\ IF last_popup = "not_found"
           THEN /\ ~IsRegistered(users, event.id)
                /\ PanelUser(current_user, user_info) = NoUser
           ELSE /\ IsRegistered(users, event.id)
                /\ PanelUser(current_user, user_info).user_id = event.id

\* An unregistered code was passed on while the badge of an earlier scan, of
\* a registered user, was still showing.
C15_Witness ==
    /\ event.kind = "forwarded"
    /\ last_popup = "not_found"
    /\ Len(fwd_log) = 2
    /\ IsRegistered(users, fwd_log[1].id)
    /\ fwd_log[2].t - fwd_log[1].t <= message_timeout * TicksPerSecond
    /\ RecordsOf(att, fwd_log[1].id, Today(fwd_log[1].t)) # {}

\* C16: a frame in which no payload is decoded, or whose payload is held back,
\* leaves the ledger, last_id and last_time unchanged and changes the badge
\* and its user at most by removing them when the time is up; drawing the
\* frame (lines 351-452) assigns none of them, so the state at the end of
\* transform is the state after line 346.
C16_QuietFrame ==
    [][event'.kind \in {"miss", "suppressed"} =>
          /\ att' = att
          /\ users' = users
          /\ last_id' = last_id /\ last_time' = last_time
          /\ message_shown_time' = message_shown_time
          /\ user_info' = user_info /\ last_popup' = last_popup
          /\ \/ overlay_message' = overlay_message /\ current_user' = current_user
             \/ Resolved /\ overlay_message' = "" /\ current_user' = NoUser]_vars

\* A held-back frame went by while a record was in the ledger and the badge
\* was showing, and left the badge showing.
C16_Witness ==
    /\ event.kind = "suppressed"
    /\ Resolved
    /\ att # <<>>
    /\ now > last_time

\* C17: when a session starts last_id is None, so the first payload decoded
\* in the session is passed on however soon after the start it comes.
C17_FirstScanForwarded ==
    [][(ScanStep /\ last_id = None) => ForwardStep]_vars

\* The badge set at tick s is showing.
BadgeOfTick(s) == Resolved /\ message_shown_time = s

\* C18: the badge cannot get stuck.  As long as frames keep being processed
\* and the clock keeps running, a badge that is showing is removed sooner or
\* later, unless a new scan replaces it first (the clock of the model stops
\* at MaxTime, so this is asked of the badges whose time is up before then);
\* and whenever a payload is passed on, from no badge or from a badge, a
\* badge is showing at the end of the frame.
C18_FeedbackNeverStuck ==
    /\ \A s \in 0..MaxTime :
          (s + message_timeout * TicksPerSecond < MaxTime)
             => (BadgeOfTick(s) ~> ~BadgeOfTick(s))
    /\ [](event.kind = "forwarded" => Resolved)

\* A badge was shown, its time ran out and a frame removed it.
C18_Witness ==
    /\ ~Resolved
    /\ event.out = "returned"
    /\ message_shown_time # SHOWN_TIME_INIT
    /\ now > expiry_time
    /\ Len(fwd_log) > 0
    /\ fwd_log[Len(fwd_log)].t = message_shown_time

\* No mark_attendance call and no run of the View Data page is in progress.
Quiescent == (\A c \in Contexts : ~InFlight(c)) /\ view.pc = "idle"

\* C19: after any interleaving of scans with deletions of users on the View
\* Data page, every row of the ledger belongs to a user that is in the
\* directory.
C19_NoOrphanRecord ==
    Quiescent => \A k \in 1..Len(att) : IsRegistered(users, att[k].user_id)

\* C20: after any sequence of registrations no two rows of the directory have
\* the same user_id or the same roll number, and registering a roll number
\* that is in the directory adds no row and returns the user_id of the row
\* that has it, with the "already exists" flag set.
C20_UniqueUsers ==
    /\ \A j, k \in 1..Len(users) :
          j # k => /\ users[j].user_id # users[k].user_id
                   /\ users[j].roll_number # users[k].roll_number
    /\ \A name \in RegNames, roll \in RegRolls :
          (isdigit(roll) /\ strip(name) # <<>>) =>
             \A k \in 1..Len(users) :
                users[k].roll_number = int(strip(roll)) =>
                   LET res == save_user(strip(name), strip(roll), users)
                   IN  /\ res.exists
                       /\ res.df = users
                       /\ res.user_id = users[k].user_id

\* ------------------------------------------------------ clear all attendance
\* The step empties a ledger that had rows.
Emptied == att # <<>> /\ att' = <<>>

\* C21, as claimed: the ledger is emptied only in a step in which the flag is
\* set and Confirm is clicked; a click on Clear or on Cancel leaves the
\* ledger unchanged; and a click on Confirm, like a click on Cancel, leaves
\* the flag reset.
C21_ClearAllResetsFlag ==
    [][/\ Emptied => (confirm_delete_all /\ event'.kind = "confirm")
       /\ event'.kind \in {"clear", "cancel"} => att' = att
       /\ event'.kind \in {"confirm", "cancel"} => ~confirm_delete_all']_vars

\* C21, amended: the ledger is emptied only in a step in which the flag is
\* set and Confirm is clicked; a click on Clear or on Cancel leaves the
\* ledger unchanged; a click on Cancel leaves the flag reset; a click on
\* Confirm either empties the ledger and leaves the flag reset, or (the
\* backup or the write failed) leaves both the ledger and the flag as they
\* were.
C21_ClearAllGuarded ==
    [][/\ Emptied => (confirm_delete_all /\ event'.kind = "confirm")
       /\ event'.kind \in {"clear", "cancel"} => att' = att
       /\ event'.kind = "cancel" => ~confirm_delete_all'
       /\ event'.kind = "confirm" =>
             \/ att' = <<>> /\ ~confirm_delete_all'
             \/ att' = att /\ confirm_delete_all' = confirm_delete_all]_vars

\* Attendance was marked and a confirmed click has emptied the ledger.
C21_Witness ==
    /\ event.kind = "confirm"
    /\ att = <<>>
    /\ ~confirm_delete_all
    /\ last_popup = "success"
    /\ Len(fwd_log) > 0

====
